---- MODULE Spec2Model ----
(***************************************************************************)
(* Product Catalog Service: the REST handlers of service/routes.py as a    *)
(* state machine over the product table.                                   *)
(*                                                                         *)
(* State: the table of Product rows, the storage's id sequence, the last   *)
(* request handled and the response it got, and three history variables.   *)
(*                                                                         *)
(* service/models.py (Product, Category) and the error handlers are not    *)
(* among the sources; Category, NewProduct, deserialize, serialize, find,  *)
(* create, update, delete, Decimal and str_Decimal are modelled from the   *)
(* specification (sections 3, 4.2, 7).                                     *)
(***************************************************************************)
EXTENDS Integers, Sequences, FiniteSets, TLC

VARIABLES
    products,      \* the product table: a set of rows
    id_seq,        \* the last id the storage's sequence assigned
    request,       \* the last request handled
    response,      \* the response it got
    created_ids,   \* history: the ids POST /products has returned, in order
    deleted_ids,   \* history: the ids DELETE has removed with a 204
    just_created   \* history: the body of the POST 201 handled just before the last request

vars == <<products, id_seq, request, response, created_ids, deleted_ids, just_created>>

(***************************************************************************)
(* Bounds and input sets                                                   *)
(***************************************************************************)
\* the number of rows the storage's id sequence hands out before creation stops
MaxId == 2

\* the ids a request path may name: 0 is never assigned
PathIds == 0..MaxId

HTTP_200_OK == 200
HTTP_201_CREATED == 201
HTTP_204_NO_CONTENT == 204
HTTP_400_BAD_REQUEST == 400
HTTP_404_NOT_FOUND == 404
HTTP_415_UNSUPPORTED_MEDIA_TYPE == 415

\* Python's None, for the description of a product that was given none
None == "<None>"

(***************************************************************************)
(* service.models (modelled from the specification)                        *)
(***************************************************************************)
\* the closed enumeration: member name -> member (an integer code)
Category ==
    [n \in {"TOOLS", "FOOD", "CLOTHS", "HOUSEWARES", "AUTOMOTIVE"} |->
        CASE n = "TOOLS" -> 1
          [] n = "FOOD" -> 2
          [] n = "CLOTHS" -> 3
          [] n = "HOUSEWARES" -> 4
          [] n = "AUTOMOTIVE" -> 5]

CategoryNames == DOMAIN Category

\* member.name
CategoryName(member) == CHOOSE n \in CategoryNames : Category[n] = member

\* Decimal(text): the exact decimal coef * 10^exp a price text denotes
Decimal(text) ==
    CASE text = "42.50" -> [coef |-> 4250, exp |-> -2]
      [] text = "7" -> [coef |-> 7, exp |-> 0]
      [] text \in {"7.0", "07.0"} -> [coef |-> 70, exp |-> -1]

\* str(decimal): the canonical text of a decimal (no sign, no leading zeros)
str_Decimal(d) ==
    CASE d = [coef |-> 4250, exp |-> -2] -> "42.50"
      [] d = [coef |-> 7, exp |-> 0] -> "7"
      [] d = [coef |-> 70, exp |-> -1] -> "7.0"

RECURSIVE Pow10(_)
Pow10(n) == IF n = 0 THEN 1 ELSE 10 * Pow10(n - 1)

\* Decimal.__eq__: numeric equality, whatever the exponents
DecimalEq(a, b) == a.coef * Pow10(0 - b.exp) = b.coef * Pow10(0 - a.exp)

\* the fields deserialize requires of a payload (description is optional)
RequiredFields == {"name", "price", "available", "category"}

\* Product(): a new, unsaved product
NewProduct ==
    [id |-> 0, name |-> None, description |-> None,
     price |-> [coef |-> 0, exp |-> 0], available |-> TRUE, category |-> 0]

\* whether deserialize accepts the payload
deserialize_ok(data) ==
    /\ RequiredFields \subseteq DOMAIN data
    /\ data["category"] \in CategoryNames

\* product.deserialize(data): the provided fields overwrite the product's;
\* the id is not among them
deserialize(product, data) ==
    [id |-> product.id,
     name |-> data["name"],
     description |-> IF "description" \in DOMAIN data
                     THEN data["description"] ELSE product.description,
     price |-> Decimal(data["price"]),
     available |-> data["available"],
     category |-> Category[data["category"]]]

\* product.serialize(): the wire representation
serialize(product) ==
    [id |-> product.id,
     name |-> product.name,
     description |-> product.description,
     price |-> str_Decimal(product.price),
     available |-> product.available,
     category |-> CategoryName(product.category)]

\* Product.find(product_id): the rows with that id (none when not found)
find(table, product_id) == {p \in table : p.id = product_id}

\* product.create(): the storage assigns the next id of its sequence
create(table, seq, product) ==
    [products |-> table \cup {[product EXCEPT !.id = seq + 1]},
     id_seq |-> seq + 1,
     product |-> [product EXCEPT !.id = seq + 1]]

\* product.update(): the row of that id is replaced
update(table, product) ==
    {p \in table : p.id # product.id} \cup {product}

\* product.delete(): the row is removed
delete(table, product) == table \ {product}

(***************************************************************************)
(* Requests: the inputs the handlers are driven with                       *)
(***************************************************************************)
JSON == "application/json"

\* request.headers: without a Content-Type, with the right one, with a wrong one
NoContentType == <<>>
JsonContentType == [h \in {"Content-Type"} |-> JSON]
TextContentType == [h \in {"Content-Type"} |-> "text/plain"]

\* a complete payload, as ProductFactory().serialize() builds it
FullPayload(n, a, c) ==
    [name |-> n, description |-> "steel",
     price |-> IF n = "hammer" THEN "42.50" ELSE "07.0",
     available |-> a, category |-> c]

\* four complete payloads in which every two of name, available and category
\* vary independently
FullPayloads ==
    {FullPayload("hammer", TRUE, "TOOLS"), FullPayload("hammer", FALSE, "FOOD"),
     FullPayload("apple", TRUE, "FOOD"), FullPayload("apple", FALSE, "TOOLS")}

BasePayload == FullPayload("hammer", FALSE, "FOOD")

\* the payload without one of its keys
Without(data, key) == [k \in (DOMAIN data) \ {key} |-> data[k]]

\* the payload carrying an id of its own
WithId(data, i) == [k \in (DOMAIN data) \cup {"id"} |-> IF k = "id" THEN i ELSE data[k]]

Payloads ==
    FullPayloads
    \cup {Without(BasePayload, k) : k \in DOMAIN BasePayload}
    \cup {[BasePayload EXCEPT !["category"] = c] : c \in {"GARDEN", "tools"}}
    \cup {WithId(FullPayload("apple", TRUE, "FOOD"), 1), WithId(BasePayload, 2)}

\* the (headers, body) pairs of the write requests: every payload as JSON, and
\* three bodies under a missing or wrong Content-Type
WriteInputs ==
    ({JsonContentType} \X Payloads)
    \cup ({NoContentType, TextContentType}
            \X {BasePayload, Without(BasePayload, "name"),
                [BasePayload EXCEPT !["category"] = "GARDEN"]})

\* the write requests that fill the table for the list queries
FillInputs == {JsonContentType} \X FullPayloads

\* a string as the sequence of its characters
TrueWords == {<<"t", "r", "u", "e">>, <<"1">>, <<"y", "e", "s">>}
FalseWords == {<<"f", "a", "l", "s", "e">>, <<"0">>, <<"n", "o">>}

\* values of the available query parameter
AvailableValues ==
    TrueWords \cup FalseWords
    \cup {<<"T", "R", "U", "E">>, <<"Y", "e", "s">>, <<"F", "a", "l", "s", "e">>, <<"N", "O">>}
    \cup {<<" ", "t", "r", "u", "e">>, <<"n", "o", " ">>}
    \cup {<<>>, <<" ">>, <<"m", "a", "y", "b", "e">>, <<"2">>, <<"t">>, <<"t", " ", "r", "u", "e">>}

CategoryValues == CategoryNames \cup {"InvalidCategory", "tools", ""}

NameValues == {"hammer", "apple", "nail", ""}

\* request.args: any subset of the three parameters; each parameter alone takes
\* every value, the combinations take theirs from smaller sets
ArgSets ==
    {<<>>}
    \cup {[k \in {"name"} |-> n] : n \in NameValues}
    \cup {[k \in {"category"} |-> c] : c \in CategoryValues}
    \cup {[k \in {"available"} |-> v] : v \in AvailableValues}
    \cup {[name |-> n, category |-> c] : n \in {"hammer", ""}, c \in CategoryValues}
    \cup {[name |-> n, available |-> v] : n \in {"apple", ""},
            v \in {<<"t", "r", "u", "e">>, <<"N", "O">>, <<"2">>}}
    \cup {[category |-> c, available |-> v] : c \in {"TOOLS", "FOOD", "tools", ""},
            v \in {<<"t", "r", "u", "e">>, <<"N", "O">>, <<"2">>}}
    \cup {[name |-> n, category |-> c, available |-> v] :
            n \in {"hammer", ""}, c \in {"TOOLS", "FOOD", "tools"},
            v \in {<<"1">>, <<"f", "a", "l", "s", "e">>, <<"m", "a", "y", "b", "e">>}}

\* the list queries of the write-centred specification
FewArgSets == {<<>>, [k \in {"name"} |-> "hammer"], [k \in {"available"} |-> <<"N", "O">>]}

\* request.args.get(key)
HasArg(args, key) == key \in DOMAIN args

(***************************************************************************)
(* str.strip() and str.lower() on character sequences                      *)
(***************************************************************************)
Whitespace == {" ", "\t", "\n"}

UpperCase == <<"A", "B", "C", "D", "E", "F", "G", "H", "I", "J", "K", "L", "M",
               "N", "O", "P", "Q", "R", "S", "T", "U", "V", "W", "X", "Y", "Z">>
LowerCase == <<"a", "b", "c", "d", "e", "f", "g", "h", "i", "j", "k", "l", "m",
               "n", "o", "p", "q", "r", "s", "t", "u", "v", "w", "x", "y", "z">>

lower_char(c) ==
    IF \E i \in DOMAIN UpperCase : UpperCase[i] = c
    THEN LowerCase[CHOOSE i \in DOMAIN UpperCase : UpperCase[i] = c]
    ELSE c

\* s.lower()
lower(s) == [i \in DOMAIN s |-> lower_char(s[i])]

RECURSIVE lstrip(_)
lstrip(s) == IF s # <<>> /\ Head(s) \in Whitespace THEN lstrip(Tail(s)) ELSE s

RECURSIVE rstrip(_)
rstrip(s) ==
    IF s # <<>> /\ s[Len(s)] \in Whitespace THEN rstrip(SubSeq(s, 1, Len(s) - 1)) ELSE s

\* s.strip()
strip(s) == rstrip(lstrip(s))

(***************************************************************************)
(* service/routes.py                                                       *)
(***************************************************************************)
\* abort(code, message): the error response; the table is left as it was
abort(code, message, table, seq) ==
    [status |-> code, headers |-> <<>>, body |-> [message |-> message],
     products |-> table, id_seq |-> seq]

\* url_for("get_products", product_id=...)
url_for(product_id) == <<"/products", product_id>>

\* mutant of check_content_type: a request without a Content-Type passes
check_content_type_lenient(headers, content_type) ==
    IF "Content-Type" \notin DOMAIN headers
    THEN TRUE
    ELSE headers["Content-Type"] = content_type

\* check_content_type(content_type): TRUE when the request passes, FALSE when
\* it is aborted with 415
check_content_type(headers, content_type) ==
    IF "Content-Type" \notin DOMAIN headers
    THEN FALSE
    ELSE headers["Content-Type"] = content_type

\* mutant of create_products: the row keeps the id the payload carries
create_products_keeps_id(table, seq, headers, data) ==
    IF ~check_content_type(headers, JSON)
    THEN abort(HTTP_415_UNSUPPORTED_MEDIA_TYPE, "Content-Type must be application/json", table, seq)
    ELSE IF ~deserialize_ok(data)
    THEN abort(HTTP_400_BAD_REQUEST, "Invalid product", table, seq)
    ELSE LET product == deserialize(NewProduct, data)
             row == [product EXCEPT !.id = IF "id" \in DOMAIN data THEN data["id"] ELSE seq + 1]
         IN  [status |-> HTTP_201_CREATED,
              headers |-> [h \in {"Location"} |-> url_for(row.id)],
              body |-> serialize(row),
              products |-> table \cup {row},
              id_seq |-> seq + 1]

\* mutant of create_products: the response is built before product.create()
create_products_stale(table, seq, headers, data) ==
    IF ~check_content_type(headers, JSON)
    THEN abort(HTTP_415_UNSUPPORTED_MEDIA_TYPE, "Content-Type must be application/json", table, seq)
    ELSE IF ~deserialize_ok(data)
    THEN abort(HTTP_400_BAD_REQUEST, "Invalid product", table, seq)
    ELSE LET product == deserialize(NewProduct, data)
             saved == create(table, seq, product)
         IN  [status |-> HTTP_201_CREATED,
              headers |-> [h \in {"Location"} |-> url_for(product.id)],
              body |-> serialize(product),
              products |-> saved.products,
              id_seq |-> saved.id_seq]

\* POST /products
create_products(table, seq, headers, data) ==
    IF ~check_content_type(headers, JSON)
    THEN abort(HTTP_415_UNSUPPORTED_MEDIA_TYPE, "Content-Type must be application/json", table, seq)
    ELSE IF ~deserialize_ok(data)
    THEN abort(HTTP_400_BAD_REQUEST, "Invalid product", table, seq)
    ELSE LET saved == create(table, seq, deserialize(NewProduct, data))
         IN  [status |-> HTTP_201_CREATED,
              headers |-> [h \in {"Location"} |-> url_for(saved.product.id)],
              body |-> serialize(saved.product),
              products |-> saved.products,
              id_seq |-> saved.id_seq]

\* if name: query.filter(Product.name == name)
name_filter(query, args) ==
    IF HasArg(args, "name") /\ args["name"] # ""
    THEN {p \in query : p.name = args["name"]}
    ELSE query

\* whether the category lookup aborts: Category[category_name] raises KeyError
category_aborts(args) ==
    /\ HasArg(args, "category")
    /\ args["category"] # ""
    /\ args["category"] \notin DOMAIN Category

\* mutant of category_filter: the query is left unfiltered
category_filter_skipped(query, args) == query

\* if category_name: query.filter(Product.category == Category[category_name])
category_filter(query, args) ==
    IF HasArg(args, "category") /\ args["category"] # ""
    THEN {p \in query : p.category = Category[args["category"]]}
    ELSE query

\* mutant of available_val: the value is not stripped
available_val_unstripped(args) == lower(args["available"])

\* val = available_param.strip().lower()
available_val(args) == lower(strip(args["available"]))

\* whether the available parameter aborts: val is in neither tuple
available_aborts(args) ==
    /\ HasArg(args, "available")
    /\ available_val(args) \notin {<<"t", "r", "u", "e">>, <<"1">>, <<"y", "e", "s">>}
    /\ available_val(args) \notin {<<"f", "a", "l", "s", "e">>, <<"0">>, <<"n", "o">>}

\* mutant of available_filter: the false branch filters nothing
available_filter_true_only(query, args) ==
    IF ~HasArg(args, "available")
    THEN query
    ELSE IF available_val(args) \in {<<"t", "r", "u", "e">>, <<"1">>, <<"y", "e", "s">>}
    THEN {p \in query : p.available = TRUE}
    ELSE query

\* if available_param is not None: query.filter(Product.available.is_(...))
available_filter(query, args) ==
    IF ~HasArg(args, "available")
    THEN query
    ELSE IF available_val(args) \in {<<"t", "r", "u", "e">>, <<"1">>, <<"y", "e", "s">>}
    THEN {p \in query : p.available = TRUE}
    ELSE {p \in query : p.available = FALSE}

\* mutant of list_products: the available filter starts again from Product.query
list_products_requeries(table, seq, args) ==
    IF category_aborts(args)
    THEN abort(HTTP_400_BAD_REQUEST, "Unknown category", table, seq)
    ELSE IF available_aborts(args)
    THEN abort(HTTP_400_BAD_REQUEST, "Invalid available", table, seq)
    ELSE LET query == IF HasArg(args, "available")
                      THEN available_filter(table, args)
                      ELSE category_filter(name_filter(table, args), args)
         IN  [status |-> HTTP_200_OK,
              headers |-> <<>>,
              body |-> {serialize(prod) : prod \in query},
              products |-> table,
              id_seq |-> seq]

\* GET /products; the list body is modelled as the set of its elements (the
\* storage's order is not specified)
list_products(table, seq, args) ==
    IF category_aborts(args)
    THEN abort(HTTP_400_BAD_REQUEST, "Unknown category", table, seq)
    ELSE IF available_aborts(args)
    THEN abort(HTTP_400_BAD_REQUEST, "Invalid available", table, seq)
    ELSE LET query == available_filter(category_filter(name_filter(table, args), args), args)
         IN  [status |-> HTTP_200_OK,
              headers |-> <<>>,
              body |-> {serialize(prod) : prod \in query},
              products |-> table,
              id_seq |-> seq]

\* GET /products/<int:product_id>
get_products(table, seq, product_id) ==
    IF find(table, product_id) = {}
    THEN abort(HTTP_404_NOT_FOUND, "was not found", table, seq)
    ELSE LET product == CHOOSE p \in find(table, product_id) : TRUE
         IN  [status |-> HTTP_200_OK,
              headers |-> [h \in {"Location"} |-> url_for(product.id)],
              body |-> serialize(product),
              products |-> table,
              id_seq |-> seq]

\* mutant of update_products: a product that is not found is created
update_products_upsert(table, seq, headers, product_id, data) ==
    IF ~check_content_type(headers, JSON)
    THEN abort(HTTP_415_UNSUPPORTED_MEDIA_TYPE, "Content-Type must be application/json", table, seq)
    ELSE IF ~deserialize_ok(data)
    THEN abort(HTTP_400_BAD_REQUEST, "Invalid product", table, seq)
    ELSE LET old == IF find(table, product_id) = {}
                    THEN [NewProduct EXCEPT !.id = product_id]
                    ELSE CHOOSE p \in find(table, product_id) : TRUE
             product == deserialize(old, data)
         IN  [status |-> HTTP_200_OK,
              headers |-> <<>>,
              body |-> serialize(product),
              products |-> update(table, product),
              id_seq |-> seq]

\* mutant of update_products: the name is saved before the payload is rejected
update_products_dirty(table, seq, headers, product_id, data) ==
    IF ~check_content_type(headers, JSON)
    THEN abort(HTTP_415_UNSUPPORTED_MEDIA_TYPE, "Content-Type must be application/json", table, seq)
    ELSE IF find(table, product_id) = {}
    THEN abort(HTTP_404_NOT_FOUND, "was not found", table, seq)
    ELSE LET old == CHOOSE p \in find(table, product_id) : TRUE
         IN  IF ~deserialize_ok(data)
             THEN abort(HTTP_400_BAD_REQUEST, "Invalid product",
                        IF "name" \in DOMAIN data
                        THEN update(table, [old EXCEPT !.name = data["name"]])
                        ELSE table,
                        seq)
             ELSE [status |-> HTTP_200_OK,
                   headers |-> <<>>,
                   body |-> serialize(deserialize(old, data)),
                   products |-> update(table, deserialize(old, data)),
                   id_seq |-> seq]

\* mutant of update_products: the product takes the id the payload carries
update_products_payload_id(table, seq, headers, product_id, data) ==
    IF ~check_content_type(headers, JSON)
    THEN abort(HTTP_415_UNSUPPORTED_MEDIA_TYPE, "Content-Type must be application/json", table, seq)
    ELSE IF find(table, product_id) = {}
    THEN abort(HTTP_404_NOT_FOUND, "was not found", table, seq)
    ELSE IF ~deserialize_ok(data)
    THEN abort(HTTP_400_BAD_REQUEST, "Invalid product", table, seq)
    ELSE LET old == CHOOSE p \in find(table, product_id) : TRUE
             product == [deserialize(old, data) EXCEPT
                            !.id = IF "id" \in DOMAIN data THEN data["id"] ELSE @]
         IN  [status |-> HTTP_200_OK,
              headers |-> <<>>,
              body |-> serialize(product),
              products |-> (table \ {old}) \cup {product},
              id_seq |-> seq]

\* mutant of update_products: the payload is applied to a fresh Product() that
\* takes the place of the stored one
update_products_replaces(table, seq, headers, product_id, data) ==
    IF ~check_content_type(headers, JSON)
    THEN abort(HTTP_415_UNSUPPORTED_MEDIA_TYPE, "Content-Type must be application/json", table, seq)
    ELSE IF find(table, product_id) = {}
    THEN abort(HTTP_404_NOT_FOUND, "was not found", table, seq)
    ELSE IF ~deserialize_ok(data)
    THEN abort(HTTP_400_BAD_REQUEST, "Invalid product", table, seq)
    ELSE LET product == deserialize([NewProduct EXCEPT !.id = product_id], data)
         IN  [status |-> HTTP_200_OK,
              headers |-> <<>>,
              body |-> serialize(product),
              products |-> update(table, product),
              id_seq |-> seq]

\* PUT /products/<int:product_id>
update_products(table, seq, headers, product_id, data) ==
    IF ~check_content_type(headers, JSON)
    THEN abort(HTTP_415_UNSUPPORTED_MEDIA_TYPE, "Content-Type must be application/json", table, seq)
    ELSE IF find(table, product_id) = {}
    THEN abort(HTTP_404_NOT_FOUND, "was not found", table, seq)
    ELSE IF ~deserialize_ok(data)
    THEN abort(HTTP_400_BAD_REQUEST, "Invalid product", table, seq)
    ELSE LET product == deserialize(CHOOSE p \in find(table, product_id) : TRUE, data)
         IN  [status |-> HTTP_200_OK,
              headers |-> <<>>,
              body |-> serialize(product),
              products |-> update(table, product),
              id_seq |-> seq]

\* mutant of delete_products: 204 is returned and the row is kept
delete_products_keeps_row(table, seq, product_id) ==
    IF find(table, product_id) = {}
    THEN abort(HTTP_404_NOT_FOUND, "was not found", table, seq)
    ELSE [status |-> HTTP_204_NO_CONTENT,
          headers |-> <<>>,
          body |-> <<>>,
          products |-> table,
          id_seq |-> seq]

\* DELETE /products/<int:product_id>
delete_products(table, seq, product_id) ==
    IF find(table, product_id) = {}
    THEN abort(HTTP_404_NOT_FOUND, "was not found", table, seq)
    ELSE [status |-> HTTP_204_NO_CONTENT,
          headers |-> <<>>,
          body |-> <<>>,
          products |-> delete(table, CHOOSE p \in find(table, product_id) : TRUE),
          id_seq |-> seq]

(***************************************************************************)
(* The state machine: one action per request                               *)
(***************************************************************************)
Init ==
    /\ products = {}
    /\ id_seq = 0
    /\ request = [method |-> "NONE", endpoint |-> "none"]
    /\ response = [status |-> 0]
    /\ created_ids = <<>>
    /\ deleted_ids = {}
    /\ just_created = {}

\* what every request does with the handler's result r
Respond(req, r) ==
    /\ request' = req
    /\ response' = [status |-> r.status, headers |-> r.headers, body |-> r.body]
    /\ products' = r.products
    /\ id_seq' = r.id_seq
    /\ created_ids' = IF req.endpoint = "create_products" /\ r.status = HTTP_201_CREATED
                      THEN Append(created_ids, r.body.id) ELSE created_ids
    /\ deleted_ids' = IF req.endpoint = "delete_products" /\ r.status = HTTP_204_NO_CONTENT
                      THEN deleted_ids \cup {req.id} ELSE deleted_ids
    /\ just_created' = IF request.endpoint = "create_products" /\ response.status = HTTP_201_CREATED
                       THEN {response.body} ELSE {}

PostProducts(inputs) ==
    \E in \in inputs :
        LET r == create_products(products, id_seq, in[1], in[2])
        IN  /\ Len(created_ids) + (IF r.status = HTTP_201_CREATED THEN 1 ELSE 0) <= MaxId
            /\ Respond([method |-> "POST", endpoint |-> "create_products",
                        headers |-> in[1], json |-> in[2]], r)

ListProducts(argsets) ==
    \E args \in argsets :
        Respond([method |-> "GET", endpoint |-> "list_products", args |-> args],
                list_products(products, id_seq, args))

GetProducts ==
    \E product_id \in PathIds :
        Respond([method |-> "GET", endpoint |-> "get_products", id |-> product_id],
                get_products(products, id_seq, product_id))

PutProducts(inputs) ==
    \E in \in inputs, product_id \in PathIds :
        Respond([method |-> "PUT", endpoint |-> "update_products", id |-> product_id,
                 headers |-> in[1], json |-> in[2]],
                update_products(products, id_seq, in[1], product_id, in[2]))

DeleteProducts ==
    \E product_id \in PathIds :
        Respond([method |-> "DELETE", endpoint |-> "delete_products", id |-> product_id],
                delete_products(products, id_seq, product_id))

\* the service under every write request and a few list queries
Next ==
    \/ PostProducts(WriteInputs)
    \/ ListProducts(FewArgSets)
    \/ GetProducts
    \/ PutProducts(WriteInputs)
    \/ DeleteProducts

Spec == Init /\ [][Next]_vars

\* the service under every list query, its table filled by complete payloads
ListNext ==
    \/ PostProducts(FillInputs)
    \/ ListProducts(ArgSets)
    \/ GetProducts
    \/ PutProducts(FillInputs)
    \/ DeleteProducts

ListSpec == Init /\ [][ListNext]_vars

(***************************************************************************)
(* Claims                                                                  *)
(***************************************************************************)
\* the category names the specification lists
ClaimedCategories == {"TOOLS", "FOOD", "CLOTHS", "HOUSEWARES", "AUTOMOTIVE"}

\* the request carries Content-Type: application/json
SentAsJson(req) ==
    /\ "Content-Type" \in DOMAIN req.headers
    /\ req.headers["Content-Type"] = "application/json"

\* a valid creation payload: the required fields, and a listed category
ValidPayload(data) ==
    /\ {"name", "price", "available", "category"} \subseteq DOMAIN data
    /\ data["category"] \in ClaimedCategories

StoredIds(table) == {p.id : p \in table}

\* C1: every successful POST /products returns an id that no earlier POST
\* returned, deleted products included, and no two stored products share an id.
C1_IdsNeverReused ==
    /\ \A i, j \in 1..Len(created_ids) : i # j => created_ids[i] # created_ids[j]
    /\ \A p, q \in products : p.id = q.id => p = q
    /\ StoredIds(products) \subseteq {created_ids[i] : i \in 1..Len(created_ids)}

\* a POST has succeeded after an earlier product was deleted
C1_Witness ==
    /\ request.endpoint = "create_products"
    /\ response.status = 201
    /\ Len(created_ids) = 2
    /\ deleted_ids # {}

\* C2: a POST /products with a valid payload returns 201 with a Location header
\* and a body carrying the payload's name, description, price, available and
\* category; a GET of the returned id issued next returns 200 with the
\* representation the POST returned.
C2_CreateThenRead ==
    /\ (/\ request.endpoint = "create_products"
        /\ SentAsJson(request)
        /\ ValidPayload(request.json))
       => /\ response.status = 201
          /\ "Location" \in DOMAIN response.headers
          /\ response.body.name = request.json["name"]
          /\ "description" \in DOMAIN request.json
                => response.body.description = request.json["description"]
          /\ DecimalEq(Decimal(response.body.price), Decimal(request.json["price"]))
          /\ response.body.available = request.json["available"]
          /\ response.body.category = request.json["category"]
    /\ (/\ request.endpoint = "get_products"
        /\ \E created \in just_created : created.id = request.id)
       => /\ response.status = 200
          /\ response.body \in just_created

\* the GET that follows the POST of a price written "07.0" has returned it as "7.0"
C2_Witness ==
    /\ request.endpoint = "get_products"
    /\ response.status = 200
    /\ \E created \in just_created : created.id = request.id /\ created.price = "7.0"

\* C3: once DELETE /products/{id} has returned 204, every later GET of that id
\* returns 404, whatever was requested in between; the id is never stored again.
C3_DeletedStaysGone ==
    /\ StoredIds(products) \cap deleted_ids = {}
    /\ (request.endpoint = "get_products" /\ request.id \in deleted_ids)
       => response.status = 404

\* a deleted id has been read after every id the sequence allows was created
C3_Witness ==
    /\ request.endpoint = "get_products"
    /\ request.id \in deleted_ids
    /\ response.status = 404
    /\ Len(created_ids) = MaxId
    /\ products # {}

\* the request names a product by id, and (for PUT) is sent as JSON
ById(req) ==
    \/ req.endpoint \in {"get_products", "delete_products"}
    \/ req.endpoint = "update_products" /\ SentAsJson(req)

\* C4: GET, PUT (sent as JSON) and DELETE on /products/{id} return 404 when no
\* product with that id is stored, and leave the stored products unchanged.
C4_NotFound ==
    [][(ById(request') /\ request'.id \notin StoredIds(products))
        => (response'.status = 404 /\ products' = products)]_vars

\* a PUT of a deleted id has returned 404 while another product is stored
C4_Witness ==
    /\ request.endpoint = "update_products"
    /\ response.status = 404
    /\ request.id \in deleted_ids
    /\ products # {}

\* C5: a POST /products or PUT /products/{id} without Content-Type, or with one
\* that is not application/json, returns 415 whatever the body and whether or
\* not the product exists; the stored products are unchanged.
C5_UnsupportedMediaType ==
    [][(/\ request'.endpoint \in {"create_products", "update_products"}
        /\ ~SentAsJson(request'))
        => (response'.status = 415 /\ products' = products)]_vars

\* a PUT with a wrong Content-Type on an id that is not stored has returned 415
C5_Witness ==
    /\ request.endpoint = "update_products"
    /\ "Content-Type" \in DOMAIN request.headers
    /\ request.id \notin StoredIds(products)
    /\ response.status = 415

\* C6: a POST /products, or a PUT on a stored product, sent as JSON with a
\* payload that lacks a required field or names an unlisted category returns 400
\* and changes nothing.
C6_BadPayload ==
    [][(/\ request'.endpoint \in {"create_products", "update_products"}
        /\ SentAsJson(request')
        /\ request'.endpoint = "update_products" => request'.id \in StoredIds(products)
        /\ ~ValidPayload(request'.json))
        => (response'.status = 400 /\ products' = products)]_vars

\* a PUT without name on a stored product has returned 400
C6_Witness ==
    /\ request.endpoint = "update_products"
    /\ "name" \notin DOMAIN request.json
    /\ request.id \in StoredIds(products)
    /\ response.status = 400

\* C7: a successful PUT /products/{id} changes only that product: a GET of the
\* id then returns the payload's name, description, price, available and
\* category under the id of the path, even when the payload carries another id,
\* and every other stored product is unchanged.
C7_UpdateFrame ==
    [][(request'.endpoint = "update_products" /\ response'.status = 200)
        => LET got == get_products(products', id_seq', request'.id)
               data == request'.json
           IN  /\ got.status = 200
               /\ got.body.id = request'.id
               /\ got.body.name = data["name"]
               /\ "description" \in DOMAIN data => got.body.description = data["description"]
               /\ DecimalEq(Decimal(got.body.price), Decimal(data["price"]))
               /\ got.body.available = data["available"]
               /\ got.body.category = data["category"]
               /\ Cardinality(find(products', request'.id)) = 1
               /\ {p \in products' : p.id # request'.id} = {p \in products : p.id # request'.id}
               /\ id_seq' = id_seq]_vars

\* a PUT whose payload carries another id has succeeded beside a second product
C7_Witness ==
    /\ request.endpoint = "update_products"
    /\ response.status = 200
    /\ "id" \in DOMAIN request.json
    /\ request.json["id"] # request.id
    /\ Cardinality(products) = 2

\* the products a list response carries, for the rows of a table
Listed(rows) == {serialize(p) : p \in rows}

\* the string without regard to case
IgnoringCase(v) == lower(v)

\* C8: GET /products?available=v returns 200 with exactly the stored products
\* that are available when v is, ignoring case, true, 1 or yes, and exactly
\* those that are not when v is false, 0 or no; the two results are disjoint
\* and together are the unfiltered list.
C8_AvailableFilter ==
    /\ (request.endpoint = "list_products" /\ DOMAIN request.args = {"available"})
       => /\ IgnoringCase(request.args["available"]) \in TrueWords
                => /\ response.status = 200
                   /\ response.body = Listed({p \in products : p.available})
          /\ IgnoringCase(request.args["available"]) \in FalseWords
                => /\ response.status = 200
                   /\ response.body = Listed({p \in products : ~p.available})
    /\ \A t \in TrueWords, f \in FalseWords :
          LET yes == list_products(products, id_seq, [k \in {"available"} |-> t]).body
              no == list_products(products, id_seq, [k \in {"available"} |-> f]).body
              all == list_products(products, id_seq, <<>>).body
          IN  yes \cap no = {} /\ yes \cup no = all

\* available=NO has listed one of two stored products
C8_Witness ==
    /\ request.endpoint = "list_products"
    /\ request.args = [k \in {"available"} |-> <<"N", "O">>]
    /\ response.status = 200
    /\ Cardinality(response.body) = 1
    /\ Cardinality(products) = 2

\* C9 as stated: an available value that is not, ignoring case, one of true, 1,
\* yes, false, 0, no returns 400.
C9_OnlySixTokens ==
    (/\ request.endpoint = "list_products"
     /\ "available" \in DOMAIN request.args
     /\ IgnoringCase(request.args["available"]) \notin TrueWords \cup FalseWords)
    => response.status = 400

\* C9 amended: an available value that is not, ignoring case and leading and
\* trailing whitespace, one of true, 1, yes, false, 0, no returns 400; a value
\* that is one of them is accepted (200, unless the category is rejected).
C9_OnlySixTokensStripped ==
    (request.endpoint = "list_products" /\ "available" \in DOMAIN request.args)
    => LET token == IgnoringCase(strip(request.args["available"]))
       IN  /\ token \notin TrueWords \cup FalseWords => response.status = 400
           /\ (/\ token \in TrueWords \cup FalseWords
               /\ "category" \in DOMAIN request.args
                     => request.args["category"] \in ClaimedCategories \cup {""})
              => response.status = 200

\* available=" true", with a leading blank, has been accepted
C9_Witness ==
    /\ request.endpoint = "list_products"
    /\ request.args = [k \in {"available"} |-> <<" ", "t", "r", "u", "e">>]
    /\ response.status = 200
    /\ products # {}

\* C10 as stated: GET /products?category=c returns 200 with exactly the stored
\* products of category c when c is one of the five names, and 400 for every
\* other string.
C10_CategoryFilter ==
    (request.endpoint = "list_products" /\ DOMAIN request.args = {"category"})
    => IF request.args["category"] \in ClaimedCategories
       THEN /\ response.status = 200
            /\ response.body =
                 {b \in Listed(products) : b.category = request.args["category"]}
       ELSE response.status = 400

\* C10 amended: as stated for every non-empty string; an empty category value
\* is treated as no category filter (200 with every stored product). Whatever
\* the other parameters, a non-empty unlisted category returns 400.
C10_CategoryFilterNonEmpty ==
    (request.endpoint = "list_products" /\ "category" \in DOMAIN request.args)
    => LET c == request.args["category"]
           alone == DOMAIN request.args = {"category"}
       IN  /\ (c \in ClaimedCategories /\ alone)
                => /\ response.status = 200
                   /\ response.body = {b \in Listed(products) : b.category = c}
           /\ (c \notin ClaimedCategories /\ c # "") => response.status = 400
           /\ (c = "" /\ alone)
                => /\ response.status = 200
                   /\ response.body = Listed(products)
           /\ (c \in ClaimedCategories /\ response.status = 200)
                => \A b \in response.body : b.category = c

\* category=FOOD has listed one of two stored products
C10_Witness ==
    /\ request.endpoint = "list_products"
    /\ request.args = [k \in {"category"} |-> "FOOD"]
    /\ response.status = 200
    /\ Cardinality(response.body) = 1
    /\ Cardinality(products) = 2

\* the query names only valid values: a non-empty name, a listed category, an
\* available value that decodes to a boolean
ValidArgs(args) ==
    /\ "name" \in DOMAIN args => args["name"] # ""
    /\ "category" \in DOMAIN args => args["category"] \in ClaimedCategories
    /\ "available" \in DOMAIN args
          => IgnoringCase(strip(args["available"])) \in TrueWords \cup FalseWords

\* whether a listed product satisfies every predicate the query supplies
Satisfies(b, args) ==
    /\ "name" \in DOMAIN args => b.name = args["name"]
    /\ "category" \in DOMAIN args => b.category = args["category"]
    /\ "available" \in DOMAIN args
          => b.available = (IgnoringCase(strip(args["available"])) \in TrueWords)

\* C11: GET /products with any combination of valid name, category and
\* available parameters returns 200 with exactly the stored products that
\* satisfy every supplied predicate; with no parameter, every stored product.
C11_FiltersCompose ==
    (request.endpoint = "list_products" /\ ValidArgs(request.args))
    => /\ response.status = 200
       /\ response.body = {b \in Listed(products) : Satisfies(b, request.args)}
       /\ request.args = <<>> => response.body = Listed(products)

\* name, category and available together have listed one of two stored products
\* that share the name
C11_Witness ==
    /\ request.endpoint = "list_products"
    /\ DOMAIN request.args = {"name", "category", "available"}
    /\ ValidArgs(request.args)
    /\ response.status = 200
    /\ Cardinality(response.body) = 1
    /\ Cardinality(products) = 2
    /\ \A p \in products : p.name = request.args["name"]

\* the fields of a product other than its id
MutableFields == {"name", "description", "price", "available", "category"}

\* a PUT, sent as JSON, on a stored product, whose payload omits some field
PartialPut(req, table) ==
    /\ req.endpoint = "update_products"
    /\ SentAsJson(req)
    /\ req.id \in StoredIds(table)
    /\ ~(MutableFields \subseteq DOMAIN req.json)

\* the stored product of that id, as GET returns it
Stored(table, product_id) == serialize(CHOOSE p \in find(table, product_id) : TRUE)

\* the product carries the payload's fields and otherwise those of before
Merged(after, before, data) ==
    /\ after.id = before.id
    /\ after.name = IF "name" \in DOMAIN data THEN data["name"] ELSE before.name
    /\ after.description =
         IF "description" \in DOMAIN data THEN data["description"] ELSE before.description
    /\ IF "price" \in DOMAIN data
       THEN DecimalEq(Decimal(after.price), Decimal(data["price"]))
       ELSE after.price = before.price
    /\ after.available =
         IF "available" \in DOMAIN data THEN data["available"] ELSE before.available
    /\ after.category = IF "category" \in DOMAIN data THEN data["category"] ELSE before.category

====
